---- MODULE Spec2Model ----
(***************************************************************************)
(* Model of src/cairo/error.c: the translation of cairo status codes into  *)
(* pending Python exceptions (Pycairo_Check_Status, set_error,             *)
(* error_get_type_combined) and the life of a cairo.Error object with its  *)
(* extra reference-counted field `status` (error_init, error_get_status,   *)
(* error_set_status, error_clear, error_dealloc).                          *)
(***************************************************************************)
EXTENDS Integers, Sequences, FiniteSets, TLC

\* ------------------------------------------------------------------ bounds
\* Longest argument tuple handed to the constructor of cairo.Error.
MaxArgs == 2
\* Highest reference count a value is let to reach (caps the leaked counts).
MaxRef == 4

\* ------------------------------------------------------------------ values
\* Python values are records of one shape: a kind and a payload.
Str(s) == [k |-> "str", v |-> s]
None == [k |-> "None", v |-> ""]
\* The C null pointer, where a PyObject* holds no object.
NULL == [k |-> "NULL", v |-> ""]
Boom == Str("boom")
Int42 == [k |-> "int", v |-> "42"]
Int7 == [k |-> "int", v |-> "7"]

\* cairo_status_t values the switch of Pycairo_Check_Status tells apart, plus
\* the two that status_to_string renames and one that takes the default branch.
StatusCodes ==
    { "SUCCESS", "NO_MEMORY", "INVALID_RESTORE", "INVALID_POP_GROUP",
      "NO_CURRENT_POINT", "READ_ERROR", "WRITE_ERROR" }

\* cairo_status_to_string(): the native library's stock description of a code.
cairo_status_to_string(status) == [k |-> "cairo_status_to_string", v |-> status]

\* status_to_string(): the stock description, except for two codes.
status_to_string(status) ==
    IF status = "INVALID_RESTORE"
    THEN Str("Context.restore() without matching Context.save()")
    ELSE IF status = "INVALID_POP_GROUP"
    THEN Str("Context.pop_group() without matching Context.push_group()")
    ELSE cairo_status_to_string(status)

\* CREATE_INT_ENUM(Status, status): the status code wrapped as a cairo.Status.
CREATE_INT_ENUM(status) == [k |-> "cairo.Status", v |-> status]

\* ------------------------------------------------------------------- types
\* A type object: its name, the names of its bases, and an identity that is 0
\* for the static types and positive for a type made at run time.
StaticType(name, base) == [name |-> name, bases |-> <<base>>, tid |-> 0]
PycairoError_Type == StaticType("cairo.Error", "Exception")
PyExc_MemoryError == StaticType("MemoryError", "Exception")
PyExc_IOError == StaticType("IOError", "Exception")
PyExc_TypeError == StaticType("TypeError", "Exception")
PyExc_SystemError == StaticType("SystemError", "Exception")
NullType == [name |-> "NULL", bases |-> <<>>, tid |-> 0]

\* isinstance(exc, T) for a static type T.
IsInstance(exc, T) ==
    \/ exc.type = T
    \/ \E i \in 1..Len(exc.type.bases) : exc.type.bases[i] = T.name

\* ---------------------------------------------------------- exception slot
\* The pending-exception slot of the thread holds NoExc or an exception
\* instance: its identity, its type, its args and its status field.
NoExc == [id |-> 0, type |-> NullType, args |-> <<>>, status |-> NULL]
ExcIds == 1..2
\* The identity of a newly allocated exception: not that of a live one.
FreshId(pend) == IF pend.id = 1 THEN 2 ELSE 1

\* PyErr_SetString(type, msg): an instance of a host type carrying msg.
HostExc(id, type, msg) == [id |-> id, type |-> type, args |-> <<msg>>, status |-> NULL]

VARIABLES
    pending,    \* the thread's pending exception, or NoExc
    crashed,    \* the process was ended by an invalid memory access
    alive,      \* the observed cairo.Error object is allocated
    args,       \* its base.args tuple; NoArgs for a null pointer
    status,     \* its status field; NULL for a null pointer
    rc,         \* the reference count of every value
    got,        \* the reference error_get_status returned, held by its caller
    last        \* the operation performed last, its inputs and its result

vars == <<pending, crashed, alive, args, status, rc, got, last>>

\* Values whose reference counts are followed: those a status can be.
Vals == {None, Int42, Int7}
\* The tuples a caller may pass as constructor arguments: none, a message, or
\* a message followed by values.
Tuples ==
    {<<>>} \cup UNION { { <<Boom>> \o r : r \in [1..n -> Vals \ {None}] } : n \in 0..(MaxArgs - 1) }
\* base.args holding no tuple (a null pointer), and holding the tuple t.
NoArgs == [null |-> TRUE, items |-> <<>>]
ArgsOf(t) == [null |-> FALSE, items |-> t]

\* -------------------------------------------------------------- error_init
\* The status error_init derives from the stored argument tuple
\* (PyTuple_GET_ITEM(args, 1) is the second element).
\* (variant: `> 2` in place of `>= 2`)
error_init_status_OffByOne(t) == IF Len(t) > 2 THEN t[2] ELSE None
error_init_status(t) == IF Len(t) >= 2 THEN t[2] ELSE None

\* ------------------------------------------------- error_get_type_combined
\* The steps of the failure path that may themselves fail.
Faults == { "none", "PyDict_New", "new_type_args", "tp_new",
            "Py_BuildValue", "PyObject_Call" }

\* The exception a failed step of the host runtime leaves pending.
StepFailure(pend, step) ==
    HostExc(FreshId(pend),
            IF step = "tp_new" THEN PyExc_TypeError ELSE PyExc_MemoryError,
            Str(step))

\* type(name, (error, other), {}): a new type, or NULL with an exception set.
\* (variant: `other` left out of the bases)
error_get_type_combined_OneBase(error, other, name, fault, pend) ==
    IF fault \in {"PyDict_New", "new_type_args", "tp_new"}
    THEN [type |-> NullType, pending |-> StepFailure(pend, fault)]
    ELSE [type |-> [name |-> name, bases |-> <<error.name>>, tid |-> 1],
          pending |-> pend]
error_get_type_combined(error, other, name, fault, pend) ==
    IF fault \in {"PyDict_New", "new_type_args", "tp_new"}
    THEN [type |-> NullType, pending |-> StepFailure(pend, fault)]
    ELSE [type |-> [name |-> name, bases |-> <<error.name, other.name>>, tid |-> 1],
          pending |-> pend]

\* --------------------------------------------------------------- set_error
\* PyObject_Call(error_type, args, NULL) on valid operands: tp_new, then the
\* tp_init every type derived from cairo.Error inherits, error_init.
Instantiate(error_type, t, pend) ==
    [id |-> FreshId(pend), type |-> error_type, args |-> t,
     status |-> error_init_status(t)]

\* (variant: the instance is built but PyErr_SetObject is not called)
set_error_NoRaise(error_type, st, fault, pend) ==
    [ pending |-> IF fault \in {"Py_BuildValue", "PyObject_Call"}
                  THEN StepFailure(pend, fault) ELSE pend,
      nullCall |-> error_type = NullType \/ fault = "Py_BuildValue",
      nullDecref |-> fault = "Py_BuildValue" ]

set_error(error_type, st, fault, pend) ==
    LET built == fault # "Py_BuildValue"
        t == <<status_to_string(st), CREATE_INT_ENUM(st)>>
        p1 == IF built THEN pend ELSE StepFailure(pend, "Py_BuildValue")
        \* PyObject_Call is handed a null callable or a null args
        nullCall == error_type = NullType \/ ~built
        callFails == ~nullCall /\ fault = "PyObject_Call"
        v == IF nullCall \/ callFails THEN NoExc ELSE Instantiate(error_type, t, p1)
        p2 == IF callFails THEN StepFailure(p1, "PyObject_Call") ELSE p1
    IN  [ pending |-> IF v # NoExc THEN v ELSE p2,    \* PyErr_SetObject
          nullCall |-> nullCall,
          nullDecref |-> ~built ]                     \* Py_DECREF(args)

\* ---------------------------------------------------- Pycairo_Check_Status
Quiet(ret, pend) ==
    [ret |-> ret, pending |-> pend, nullCall |-> FALSE, nullDecref |-> FALSE,
     synth |-> NullType]

\* case CAIRO_STATUS_SUCCESS
\* (variant: `break` in place of `return 0`)
CaseSuccess_Break(pend) == Quiet(1, pend)
CaseSuccess(pend) == Quiet(0, pend)

\* case CAIRO_STATUS_NO_MEMORY
CaseNoMemory(pend, st, fault) ==
    LET c == error_get_type_combined(PycairoError_Type, PyExc_MemoryError,
                                     "MemoryError", fault, pend)
        s == set_error(c.type, st, fault, c.pending)
    IN  [ret |-> 1, pending |-> s.pending, nullCall |-> s.nullCall,
         \* Py_DECREF (suberror)
         nullDecref |-> s.nullDecref \/ c.type = NullType,
         synth |-> c.type]

\* default
CaseDefault(pend, st, fault) ==
    LET s == set_error(PycairoError_Type, st, fault, pend)
    IN  [ret |-> 1, pending |-> s.pending, nullCall |-> s.nullCall,
         nullDecref |-> s.nullDecref, synth |-> NullType]

\* case CAIRO_STATUS_READ_ERROR, CAIRO_STATUS_WRITE_ERROR
\* (variant: the two case labels missing, so the codes take the default)
CaseIO_AsDefault(pend, st) == CaseDefault(pend, st, "none")
CaseIO(pend, st) ==
    Quiet(1, HostExc(FreshId(pend), PyExc_IOError, cairo_status_to_string(st)))

\* The switch on the status code.
SwitchStatus(pend, st, fault) ==
    IF st = "SUCCESS" THEN CaseSuccess(pend)
    ELSE IF st = "NO_MEMORY" THEN CaseNoMemory(pend, st, fault)
    ELSE IF st \in {"READ_ERROR", "WRITE_ERROR"} THEN CaseIO(pend, st)
    ELSE CaseDefault(pend, st, fault)

\* The whole function: an exception already pending ends the call at once.
\* (variant: without the PyErr_Occurred test)
Pycairo_Check_Status_NoPendingCheck(pend, st, fault) == SwitchStatus(pend, st, fault)
Pycairo_Check_Status(pend, st, fault) ==
    IF pend # NoExc THEN Quiet(1, pend) ELSE SwitchStatus(pend, st, fault)

\* The steps a call with this status and slot executes, hence may see fail.
FaultsOf(pend, st) ==
    IF pend # NoExc \/ st \in {"SUCCESS", "READ_ERROR", "WRITE_ERROR"} THEN {"none"}
    ELSE IF st = "NO_MEMORY" THEN Faults
    ELSE {"none", "Py_BuildValue", "PyObject_Call"}

\* What a build can do once a null pointer was dereferenced: the process is
\* ended by the access, or the access goes unnoticed and execution goes on.
UBOutcomes == {"crash", "survive"}

\* The record of a call of Pycairo_Check_Status.
CallRecord(st, fault, r, returned) ==
    [op |-> "Pycairo_Check_Status", st |-> st, fault |-> fault,
     hadPending |-> pending # NoExc,
     ret |-> IF returned THEN r.ret ELSE -1, returned |-> returned,
     nullCall |-> r.nullCall, nullDecref |-> r.nullDecref, synth |-> r.synth]

Translate(st, fault) ==
    LET r == Pycairo_Check_Status(pending, st, fault) IN
    /\ ~crashed
    /\ IF r.nullCall \/ r.nullDecref
       THEN \E o \in UBOutcomes :
              IF o = "crash"
              THEN /\ crashed' = TRUE
                   /\ pending' = r.pending
                   /\ last' = CallRecord(st, fault, r, FALSE)
              ELSE /\ crashed' = FALSE
                   /\ pending' \in {r.pending, NoExc}
                   /\ last' = CallRecord(st, fault, r, TRUE)
       ELSE /\ crashed' = FALSE
            /\ pending' = r.pending
            /\ last' = CallRecord(st, fault, r, TRUE)
    /\ UNCHANGED <<alive, args, status, rc, got>>

\* A call from the binding's C code, whatever the slot holds.
CheckStatus ==
    \E st \in StatusCodes : \E fault \in FaultsOf(pending, st) :
        Translate(st, fault)

\* cairo.Error._check_status(status): parse the argument, then translate.
error_check_status ==
    \/ /\ ~crashed /\ pending = NoExc               \* PyArg_ParseTuple fails
       /\ pending' = HostExc(FreshId(pending), PyExc_TypeError, Str("Error._check_status"))
       /\ last' = [op |-> "error_check_status", ret |-> NULL]
       /\ UNCHANGED <<crashed, alive, args, status, rc, got>>
    \/ \E st \in StatusCodes : \E fault \in FaultsOf(pending, st) :
        pending = NoExc /\ Translate(st, fault)

\* The caller that was signalled a failure handles the pending exception.
PyErr_Clear ==
    /\ ~crashed
    /\ pending # NoExc
    /\ pending' = NoExc
    /\ last' = [op |-> "PyErr_Clear"]
    /\ UNCHANGED <<crashed, alive, args, status, rc, got>>

\* ------------------------------------------------- the cairo.Error object
\* How many items of the tuple t are the value v.
Occ(t, v) == Cardinality({i \in 1..Len(t) : t[i] = v})
\* The references the tuple held in base.args has on v.
TupleRefs(a, v) == IF a.null THEN 0 ELSE Occ(a.items, v)
One(b) == IF b THEN 1 ELSE 0

\* Py_INCREF / Py_DECREF of a value, on the table of reference counts.
Py_INCREF(counts, v) == [counts EXCEPT ![v] = @ + 1]
Py_DECREF(counts, v) == [counts EXCEPT ![v] = @ - 1]
\* Py_CLEAR / Py_XDECREF: nothing is released through a null pointer.
Py_XDECREF(counts, v) == IF v = NULL THEN counts ELSE Py_DECREF(counts, v)

Capped(counts) == \A v \in Vals : counts[v] <= MaxRef

\* tp_new, inherited from the base exception type (the slot is left 0): the
\* memory is zeroed, so status is null, and base.args is the tuple passed.
error_new ==
    \E t \in Tuples :
      LET counts == [v \in Vals |-> rc[v] + Occ(t, v)] IN
      /\ ~crashed /\ ~alive /\ pending = NoExc
      /\ Capped(counts)
      /\ alive' = TRUE
      /\ args' = ArgsOf(t)
      /\ status' = NULL
      /\ rc' = counts
      /\ last' = [op |-> "error_new"]
      /\ UNCHANGED <<pending, crashed, got>>

\* The base constructor: rejects keywords, else stores the tuple in base.args
\* and releases the tuple stored before.
BaseInitCounts(t) == [v \in Vals |-> rc[v] - TupleRefs(args, v) + Occ(t, v)]

error_init ==
    \E t \in Tuples : \E kwds \in BOOLEAN :
      /\ ~crashed /\ alive /\ pending = NoExc
      /\ IF kwds
         THEN /\ pending' = HostExc(FreshId(pending), PyExc_TypeError, Str("keywords"))
              /\ last' = [op |-> "error_init", kwds |-> kwds, ret |-> -1,
                          old |-> status]
              /\ UNCHANGED <<crashed, alive, args, status, rc, got>>
         ELSE LET s == error_init_status(t)
                  counts == Py_INCREF(BaseInitCounts(t), s)
              IN  /\ Capped(counts)
                  /\ args' = ArgsOf(t)
                  /\ status' = s
                  /\ rc' = counts
                  /\ last' = [op |-> "error_init", kwds |-> kwds, ret |-> 0,
                              old |-> status]
                  /\ UNCHANGED <<pending, crashed, alive, got>>

\* The getter of `status`: a new reference to the value of the field.
error_get_status ==
    /\ ~crashed /\ alive /\ pending = NoExc /\ got = NULL
    /\ IF status = NULL
       THEN \* Py_INCREF of a null pointer
            \E o \in UBOutcomes :
              /\ crashed' = (o = "crash")
              /\ pending' = IF o = "crash" THEN pending
                            ELSE HostExc(FreshId(pending), PyExc_SystemError, Str("NULL result"))
              /\ last' = [op |-> "error_get_status", null |-> TRUE]
              /\ UNCHANGED <<alive, args, status, rc, got>>
       ELSE /\ Capped(Py_INCREF(rc, status))
            /\ rc' = Py_INCREF(rc, status)
            /\ got' = status
            /\ last' = [op |-> "error_get_status", null |-> FALSE]
            /\ UNCHANGED <<pending, crashed, alive, args, status>>

\* The caller of the getter releases the reference it was given.
ReleaseGot ==
    /\ ~crashed /\ got # NULL
    /\ rc' = Py_DECREF(rc, got)
    /\ got' = NULL
    /\ last' = [op |-> "ReleaseGot"]
    /\ UNCHANGED <<pending, crashed, alive, args, status>>

\* The counts after the setter released the old value and took the new one.
\* (variant: the old value is not released)
SetStatusCounts_NoRelease(value) == Py_INCREF(rc, value)
SetStatusCounts(value) == Py_INCREF(Py_DECREF(rc, status), value)

\* The setter of `status`; value NULL is the deletion of the attribute.
SetRecord(value, ret, null) ==
    [op |-> "error_set_status", value |-> value, ret |-> ret, null |-> null,
     old |-> status]

error_set_status ==
    \E value \in Vals \cup {NULL} :
      /\ ~crashed /\ alive /\ pending = NoExc
      /\ IF value = NULL
         THEN /\ pending' = HostExc(FreshId(pending), PyExc_TypeError,
                                    Str("Cannot delete attribute"))
              /\ last' = SetRecord(value, -1, FALSE)
              /\ UNCHANGED <<crashed, alive, args, status, rc, got>>
         ELSE IF status = NULL
         THEN \* Py_DECREF of a null pointer
              \E o \in UBOutcomes :
                /\ crashed' = (o = "crash")
                /\ Capped(Py_INCREF(rc, value))
                /\ rc' = IF o = "crash" THEN rc ELSE Py_INCREF(rc, value)
                /\ status' = IF o = "crash" THEN status ELSE value
                /\ last' = SetRecord(value, IF o = "crash" THEN -1 ELSE 0, TRUE)
                /\ UNCHANGED <<pending, alive, args, got>>
         ELSE /\ Capped(SetStatusCounts(value))
              /\ rc' = SetStatusCounts(value)
              /\ status' = value
              /\ last' = SetRecord(value, 0, FALSE)
              /\ UNCHANGED <<pending, crashed, alive, args, got>>

\* tp_clear: Py_CLEAR(self->status), then the base clear, which releases the
\* tuple in base.args.
ClearCounts == [v \in Vals |-> Py_XDECREF(rc, status)[v] - TupleRefs(args, v)]

error_clear ==
    /\ ~crashed /\ alive
    /\ status' = NULL
    /\ args' = NoArgs
    /\ rc' = ClearCounts
    /\ last' = [op |-> "error_clear"]
    /\ UNCHANGED <<pending, crashed, alive, got>>

\* tp_dealloc: error_clear, then the base destructor frees the object.
error_dealloc ==
    /\ ~crashed /\ alive
    /\ status' = NULL
    /\ args' = NoArgs
    /\ rc' = ClearCounts
    /\ alive' = FALSE
    /\ last' = [op |-> "error_dealloc"]
    /\ UNCHANGED <<pending, crashed, got>>

\* --------------------------------------------------------- specification
Init ==
    /\ pending = NoExc
    /\ crashed = FALSE
    /\ alive = FALSE
    /\ args = NoArgs
    /\ status = NULL
    /\ rc = [v \in Vals |-> 1]
    /\ got = NULL
    /\ last = [op |-> "none"]

\* The status translator: calls from C code and from cairo.Error._check_status
\* on one thread, and the handling of the exception they leave pending.
NextTranslator ==
    \/ CheckStatus
    \/ error_check_status
    \/ PyErr_Clear

SpecTranslator == Init /\ [][NextTranslator]_vars

\* The life of one cairo.Error object under the operations of its type.
NextObject ==
    \/ error_new
    \/ error_init
    \/ error_get_status
    \/ ReleaseGot
    \/ error_set_status
    \/ error_clear
    \/ error_dealloc
    \/ PyErr_Clear

SpecObject == Init /\ [][NextObject]_vars

\* ------------------------------------------------------------- properties
\* The step just taken was a call of Pycairo_Check_Status.
Checked == last.op = "Pycairo_Check_Status"
\* ... in which no null pointer was used, so that C defines its behaviour.
Defined == ~last.nullCall /\ ~last.nullDecref

\* C1: a call made while an exception is pending returns 1, whatever the
\* status code, and leaves the very same exception object in the slot.
C1_PendingWins ==
    [][ (last'.op = "Pycairo_Check_Status" /\ pending # NoExc)
        => (last'.returned /\ last'.ret = 1 /\ pending' = pending) ]_vars

C1_Witness ==
    /\ Checked /\ last.hadPending /\ last.st = "SUCCESS"
    /\ last.ret = 1 /\ pending # NoExc

\* C2: a call with a status other than success and an empty slot returns 1
\* with an exception in the slot, on every branch of the switch, also when
\* the instantiation of the exception fails; stated of the executions in
\* which no null pointer is used (those are the subject of C9).
C2_FailureRaises ==
    (Checked /\ ~last.hadPending /\ last.st # "SUCCESS" /\ Defined)
        => (last.returned /\ last.ret = 1 /\ pending # NoExc /\ pending.id \in ExcIds)

C2_Witness ==
    /\ Checked /\ ~last.hadPending /\ last.st = "NO_CURRENT_POINT"
    /\ last.fault = "none" /\ last.ret = 1
    /\ pending.type = PycairoError_Type

\* C3 as stated: a call with status success returns 0 and leaves the slot as
\* it was, whether it was empty or held an exception.
C3_Original ==
    (Checked /\ last.st = "SUCCESS")
        => (last.ret = 0 /\ ((pending # NoExc) <=> last.hadPending))

\* C3 amended: a call with status success leaves the slot as it was and
\* returns 0 when the slot is empty and 1 when it holds an exception; a
\* second such call returns what the first returned.
C3_SuccessNoOp ==
    [][ (last'.op = "Pycairo_Check_Status" /\ last'.st = "SUCCESS")
        => /\ last'.returned
           /\ pending' = pending
           /\ last'.ret = (IF pending = NoExc THEN 0 ELSE 1)
           /\ (Checked /\ last.st = "SUCCESS" /\ last.returned)
                 => last'.ret = last.ret ]_vars

C3_Witness ==
    /\ Checked /\ last.st = "SUCCESS" /\ ~last.hadPending
    /\ last.ret = 0 /\ pending = NoExc

\* C4: with an empty slot, status NoMemory and every step of the host runtime
\* succeeding, the pending exception is an instance of a type made during the
\* call whose bases are (cairo.Error, MemoryError), hence an instance of both,
\* and its args are (description of the status, status value).
C4_NoMemoryCombined ==
    (Checked /\ ~last.hadPending /\ last.st = "NO_MEMORY" /\ last.fault = "none")
        => /\ last.ret = 1
           /\ pending.type = last.synth
           /\ pending.type.tid > 0
           /\ pending.type.bases = <<"cairo.Error", "MemoryError">>
           /\ IsInstance(pending, PycairoError_Type)
           /\ IsInstance(pending, PyExc_MemoryError)
           /\ pending.args = << [k |-> "cairo_status_to_string", v |-> "NO_MEMORY"],
                                [k |-> "cairo.Status", v |-> "NO_MEMORY"] >>

C4_Witness ==
    /\ Checked /\ ~last.hadPending /\ last.st = "NO_MEMORY" /\ last.fault = "none"
    /\ pending.type.tid > 0
    /\ pending.status = [k |-> "cairo.Status", v |-> "NO_MEMORY"]

\* C5: with an empty slot, status ReadError or WriteError leaves a plain
\* IOError carrying cairo's stock description, not an instance of cairo.Error;
\* every other status but success and NoMemory leaves a cairo.Error.
C5_IOErrorPlain ==
    (Checked /\ ~last.hadPending /\ last.fault = "none")
        => /\ last.st \in {"READ_ERROR", "WRITE_ERROR"}
                => /\ last.ret = 1
                   /\ pending.type = PyExc_IOError
                   /\ pending.args = << [k |-> "cairo_status_to_string", v |-> last.st] >>
                   /\ ~IsInstance(pending, PycairoError_Type)
           /\ last.st \notin {"SUCCESS", "NO_MEMORY", "READ_ERROR", "WRITE_ERROR"}
                => pending.type = PycairoError_Type

C5_Witness ==
    /\ Checked /\ ~last.hadPending /\ last.st = "WRITE_ERROR"
    /\ pending.type = PyExc_IOError

\* C9: when a step of the failure path fails, the call still returns 1 with
\* that failure pending, and no null pointer is called or released.
C9_FailurePropagates ==
    (Checked /\ last.fault # "none")
        => /\ last.returned /\ last.ret = 1
           /\ ~last.nullCall /\ ~last.nullDecref
           /\ pending = StepFailure(NoExc, last.fault)

\* C6: the status field of an allocated exception object is never null.
C6_StatusNeverNull == alive => status # NULL

\* C7: setting status to a value, where the field holds a reference, makes it
\* the field's value, takes one reference to it and releases the one to the
\* old value; deleting status fails with a TypeError and changes neither the
\* field nor any count, whatever the field holds.
C7_SetReplaces ==
    [][ last'.op = "error_set_status"
        => IF last'.value = NULL
           THEN /\ last'.ret = -1
                /\ pending'.type = PyExc_TypeError
                /\ status' = status /\ rc' = rc
           ELSE status # NULL
                => /\ last'.ret = 0
                   /\ status' = last'.value
                   /\ \A v \in Vals :
                        rc'[v] = rc[v] + One(v = last'.value) - One(v = status) ]_vars

C7_Witness ==
    /\ last.op = "error_set_status" /\ last.value = Int42 /\ last.old = Int7
    /\ last.ret = 0 /\ status = Int42

\* C8: error_init fails, leaving status alone, when the base constructor
\* fails; else status is the second element of the stored tuple when it has
\* two or more and None otherwise, with one reference taken on it.
C8_InitDerivesStatus ==
    [][ last'.op = "error_init"
        => IF last'.kwds
           THEN /\ last'.ret = -1
                /\ status' = status /\ rc' = rc /\ args' = args
                /\ pending' # NoExc
           ELSE /\ last'.ret = 0
                /\ ~args'.null
                /\ Len(args'.items) >= 2 => status' = args'.items[2]
                /\ Len(args'.items) < 2 => status' = None
                /\ args'.items = <<Boom, Int42>> => status' = Int42
                /\ args'.items = <<Boom>> => status' = None
                /\ \A v \in Vals :
                     rc'[v] = rc[v] - TupleRefs(args, v) + TupleRefs(args', v)
                              + One(v = status') ]_vars

C8_Witness ==
    /\ last.op = "error_init" /\ last.ret = 0
    /\ args = ArgsOf(<<Boom, Int42>>) /\ status = Int42

\* The references to v that have a holder: the environment's own, the one
\* the caller of the getter holds, those of the tuple and that of the field.
Holders(v) == 1 + One(got = v) + One(status = v) + TupleRefs(args, v)

\* C10: every reference the object took on a status value is released exactly
\* once: no count ever falls below the references that have a holder (none
\* released twice), and once the object is destroyed no count exceeds them
\* (none left unreleased).
C10_Balanced ==
    \A v \in Vals :
        /\ rc[v] >= Holders(v)
        /\ ~alive => rc[v] = Holders(v)

====
